---- MODULE Spec2Model ----
(***************************************************************************)
(* Manifold::Compose / Manifold::Decompose (src/src/constructors.cpp) and  *)
(* the data-parallel primitives of src/src/parallel.h.                     *)
(*                                                                         *)
(* Arrays are sequences; C++ index k is sequence position k + 1.  A vertex *)
(* position (vec3) is abstracted to one integer.                           *)
(***************************************************************************)
EXTENDS Integers, Sequences, FiniteSets

VARIABLES
    prog,              \* which entry point this run exercises
    parts,             \* Compose's argument `manifolds`
    mesh,              \* *this of Decompose (pImpl_)
    pc,                \* position inside the running function
    uf,                \* UnionFind<> uf
    componentIndices,  \* std::vector<int> componentIndices / vertLabel
    numComponents,     \* const int numComponents
    i,                 \* loop counter of the per-component loop
    meshes,            \* std::vector<Manifold> meshes (the return value)
    locals,            \* per loop iteration: the loop body's locals
    op,                \* parallel.h primitive under test
    first,             \* input range [first, last)
    map,               \* index map (mapFirst)
    curPolicy,         \* ExecutionPolicy of the running call
    call,              \* the primitive call that is running
    pos,               \* number of applications of the lambda so far
    visits,            \* how often the running call handed each index to its lambda
    tmp,               \* intermediate array of the gather/scatter round trip
    out                \* output array, per execution policy

decomposeVars == <<parts, mesh, pc, uf, componentIndices, numComponents, i, meshes, locals>>
parallelVars == <<op, first, map, curPolicy, call, pos, visits, tmp, out>>
vars == <<prog, parts, mesh, pc, uf, componentIndices, numComponents, i, meshes, locals,
          op, first, map, curPolicy, call, pos, visits, tmp, out>>

\* ----------------------------------------------------------------- bounds
MaxVert == 7
MaxLen == 3

\* ------------------------------------------------------------ array helpers
At(s, k) == s[k + 1]

Range(s) == {s[k] : k \in DOMAIN s}

\* countAt(a) .. countAt(b): the counting range [a, b)
countAt(a, b) == [k \in 1..(IF b > a THEN b - a ELSE 0) |-> a + k - 1]

RECURSIVE Flatten(_)
Flatten(ss) == IF ss = <<>> THEN <<>> ELSE Head(ss) \o Flatten(Tail(ss))

Min(S) == CHOOSE x \in S : \A y \in S : x <= y
Max(S) == CHOOSE x \in S : \A y \in S : x >= y

\* ------------------------------------------------------------- parallel.h
Policies == {"Seq", "Par"}

kSeqThreshold == 10000
kScatterThreshold == 100000
kGatherThreshold == 100000

autoPolicy(size, threshold) == IF size <= threshold THEN "Seq" ELSE "Par"

\* fault model: a for_each whose parallel branch splits the range and loses its tail
for_each_ParDropsLast(policy, n) ==
    IF policy = "Par" /\ n > 0 THEN countAt(0, n - 1) ELSE countAt(0, n)

\* for_each(policy, first, last, f): std::for_each(first, last, f), whatever
\* the policy; the value is the order in which f receives the elements.
for_each(policy, n) == countAt(0, n)

\* fault model: a scatter lambda that ignores the map
scatterBodyNoMap(outputFirst, mapFirst, inFirst, k) ==
    [outputFirst EXCEPT ![k + 1] = At(inFirst, k)]

\* the lambda of scatter: outputFirst[mapFirst[i]] = first[i]
scatterBody(outputFirst, mapFirst, inFirst, k) ==
    [outputFirst EXCEPT ![At(mapFirst, k) + 1] = At(inFirst, k)]

\* the lambda of gather: outputFirst[i] = inputFirst[mapFirst[i]]
gatherBody(outputFirst, mapFirst, inputFirst, k) ==
    [outputFirst EXCEPT ![k + 1] = At(inputFirst, At(mapFirst, k))]

\* the lambda of sequence: first[i] = i
sequenceBody(outputFirst, k) == [outputFirst EXCEPT ![k + 1] = k]

\* std::copy(first, last, d_first), one element
copyBody(outputFirst, inFirst, k) == [outputFirst EXCEPT ![k + 1] = At(inFirst, k)]

RECURSIVE gatherLoop(_, _, _, _)
gatherLoop(order, outputFirst, mapFirst, inputFirst) ==
    IF order = <<>> THEN outputFirst
    ELSE gatherLoop(Tail(order), gatherBody(outputFirst, mapFirst, inputFirst, Head(order)),
                    mapFirst, inputFirst)

\* gather(policy, mapFirst, mapLast, inputFirst, outputFirst), the whole call
gatherP(policy, mapFirst, inputFirst, outputFirst) ==
    gatherLoop(for_each(policy, Len(mapFirst)), outputFirst, mapFirst, inputFirst)

\* gather(mapFirst, mapLast, inputFirst, outputFirst): the auto-dispatching form
gather(mapFirst, inputFirst, outputFirst) ==
    gatherP(autoPolicy(Len(mapFirst), kGatherThreshold), mapFirst, inputFirst, outputFirst)

RECURSIVE scatterLoop(_, _, _, _)
scatterLoop(order, outputFirst, mapFirst, inFirst) ==
    IF order = <<>> THEN outputFirst
    ELSE scatterLoop(Tail(order), scatterBody(outputFirst, mapFirst, inFirst, Head(order)),
                     mapFirst, inFirst)

\* scatter(policy, first, last, mapFirst, outputFirst), the whole call
scatterP(policy, inFirst, mapFirst, outputFirst) ==
    scatterLoop(for_each(policy, Len(inFirst)), outputFirst, mapFirst, inFirst)

\* scatter(first, last, mapFirst, outputFirst): the auto-dispatching form
scatter(inFirst, mapFirst, outputFirst) ==
    scatterP(autoPolicy(Len(inFirst), kScatterThreshold), inFirst, mapFirst, outputFirst)

\* ------------------------------------------------------ HalfEdgeMesh (Impl)
Halfedge(s, e) == [startVert |-> s, endVert |-> e]

\* Halfedge::IsForward
IsForward(h) == h.startVert < h.endVert

NumVert(impl) == Len(impl.vertPos)
NumTri(impl) == Len(impl.halfedge) \div 3

\* value of an element of a freshly resized position array
ZeroPos == 0
\* epsilon_ / tolerance_ of a default-constructed Impl
DefaultPrecision == -1
\* entry of vertOld2New that no kept vertex wrote
NoVert == -1

EmptyBox == <<>>
BBoxOf(vertPos) ==
    IF vertPos = <<>> THEN EmptyBox ELSE <<Min(Range(vertPos)), Max(Range(vertPos))>>

\* std::make_shared<Impl>()
DefaultImpl ==
    [vertPos |-> <<>>, halfedge |-> <<>>, epsilon |-> DefaultPrecision,
     tolerance |-> DefaultPrecision, bBox |-> EmptyBox]

\* Impl::Finish: restores the derived state (the bounding volume); the arrays
\* and the precision stay as they are.
Finish(impl) == [impl EXCEPT !.bBox = BBoxOf(impl.vertPos)]

\* Impl::GatherFaces(old, faceNew2Old): new face f is old face faceNew2Old[f]
GatherFaces(impl, old, faceNew2Old) ==
    [impl EXCEPT !.halfedge =
        [h \in 1..(3 * Len(faceNew2Old)) |->
            At(old.halfedge, 3 * At(faceNew2Old, (h - 1) \div 3) + ((h - 1) % 3))]]

Reindex(vertOld2New, h) ==
    Halfedge(At(vertOld2New, h.startVert), At(vertOld2New, h.endVert))

\* Impl::ReindexVerts(vertNew2Old, oldNumVert): vertOld2New is the scatter of
\* 0..NumVert-1 through vertNew2Old, applied to both ends of every half-edge
ReindexVerts(impl, vertNew2Old, oldNumVert) ==
    LET vertOld2New == scatter(countAt(0, NumVert(impl)), vertNew2Old,
                               [k \in 1..oldNumVert |-> NoVert])
    IN [impl EXCEPT !.halfedge =
            [h \in DOMAIN impl.halfedge |-> Reindex(vertOld2New, impl.halfedge[h])]]

\* --------------------------------------------------------------- UnionFind
UnionFind(n) == [k \in 1..n |-> k - 1]

RECURSIVE find(_, _)
find(parents, x) == IF At(parents, x) = x THEN x ELSE find(parents, At(parents, x))

unionXY(parents, x, y) ==
    LET rx == find(parents, x)
        ry == find(parents, y)
    IN IF rx = ry THEN parents ELSE [parents EXCEPT ![ry + 1] = rx]

RECURSIVE labelLoop(_, _, _, _)
labelLoop(parents, k, roots, components) ==
    IF k >= Len(parents) THEN [components |-> components, count |-> Len(roots)]
    ELSE LET r == find(parents, k)
             seen == {j \in DOMAIN roots : roots[j] = r}
         IN IF seen = {}
            THEN labelLoop(parents, k + 1, Append(roots, r), Append(components, Len(roots)))
            ELSE labelLoop(parents, k + 1, roots, Append(components, (CHOOSE j \in seen : TRUE) - 1))

\* UnionFind::connectedComponents: labels in first-encountered order over the
\* element index range, and their number
connectedComponents(parents) == labelLoop(parents, 0, <<>>, <<>>)

\* ----------------------------------------------------------------- Compose
RECURSIVE ComposeLeaves(_, _)
ComposeLeaves(acc, children) ==
    IF children = <<>> THEN acc
    ELSE LET c == Head(children)
             offset == NumVert(acc)
         IN ComposeLeaves(
                [acc EXCEPT
                    !.vertPos = @ \o c.vertPos,
                    !.halfedge = @ \o [h \in DOMAIN c.halfedge |->
                        Halfedge(c.halfedge[h].startVert + offset,
                                 c.halfedge[h].endVert + offset)],
                    !.epsilon = IF c.epsilon > @ THEN c.epsilon ELSE @,
                    !.tolerance = IF c.tolerance > @ THEN c.tolerance ELSE @],
                Tail(children))

\* CsgLeafNode::Compose: the children's arrays, concatenated, every child's
\* vertex indices shifted by the number of vertices before it
CsgLeafNodeCompose(children) == Finish(ComposeLeaves(DefaultImpl, children))

\* Manifold::Compose(manifolds)
Compose(manifolds) == CsgLeafNodeCompose(manifolds)

\* --------------------------------------------------------------- Decompose
\* fault model: a union step that joins a vertex with itself
UnionEdgeSelf(parents, h) ==
    IF IsForward(h) THEN unionXY(parents, h.startVert, h.startVert) ELSE parents

\* if (halfedge.IsForward()) uf.unionXY(halfedge.startVert, halfedge.endVert);
UnionEdge(parents, h) ==
    IF IsForward(h) THEN unionXY(parents, h.startVert, h.endVert) ELSE parents

RECURSIVE UnionLoop(_, _)
UnionLoop(parents, halfedges) ==
    IF halfedges = <<>> THEN parents
    ELSE UnionLoop(UnionEdge(parents, Head(halfedges)), Tail(halfedges))

\* fault model: an early return that forgets `meshes[0] = *this`
SingleResultDefault(self) == <<DefaultImpl>>

\* std::vector<Manifold> meshes(1); meshes[0] = *this;
SingleResult(self) == <<self>>

\* fault model: a precision copy that leaves the new Impl's defaults
InheritPrecisionNone(impl, pImpl) == impl

\* impl->epsilon_ = pImpl_->epsilon_; impl->tolerance_ = pImpl_->tolerance_;
InheritPrecision(impl, pImpl) ==
    [impl EXCEPT !.epsilon = pImpl.epsilon, !.tolerance = pImpl.tolerance]

\* fault model: a vertex compaction that keeps every vertex
VertNew2OldAll(label, vertLabel, numVert) == countAt(0, numVert)

\* fault model: a vertex compaction that writes the kept indices back to front
VertNew2OldReversed(label, vertLabel, numVert) ==
    LET keep == SelectSeq(countAt(0, numVert), LAMBDA v : At(vertLabel, v) = label)
    IN [k \in DOMAIN keep |-> keep[Len(keep) + 1 - k]]

\* std::copy_if(countAt(0), countAt(numVert), vertNew2Old.begin(), vertLabel[v] == i)
VertNew2Old(label, vertLabel, numVert) ==
    SelectSeq(countAt(0, numVert), LAMBDA v : At(vertLabel, v) = label)

\* fault model: a face compaction that reads half-edge `face` instead of `3 * face`
FaceNew2OldNoStride(label, vertLabel, halfedge, numTri) ==
    SelectSeq(countAt(0, numTri),
              LAMBDA face : At(vertLabel, At(halfedge, face).startVert) = label)

\* std::copy_if(countAt(0), countAt(NumTri()), faceNew2Old.begin(),
\*              vertLabel[halfedge[3 * face].startVert] == i)
FaceNew2Old(label, vertLabel, halfedge, numTri) ==
    SelectSeq(countAt(0, numTri),
              LAMBDA face : At(vertLabel, At(halfedge, 3 * face).startVert) = label)

\* fault model: a loop body that never skips
SkipComponentNever(nFace) == FALSE

\* if (nFace == 0) continue;
SkipComponent(nFace) == nFace = 0

\* impl->vertPos_.resize(nVert); gather(vertNew2Old, pImpl_->vertPos_, impl->vertPos_)
GatherVertPos(impl, pImpl, vertNew2Old) ==
    [impl EXCEPT !.vertPos =
        gather(vertNew2Old, pImpl.vertPos, [k \in 1..Len(vertNew2Old) |-> ZeroPos])]

\* GatherFaces; ReindexVerts; Finish
Rebuild(impl, pImpl, vertNew2Old, faceNew2Old) ==
    Finish(ReindexVerts(GatherFaces(impl, pImpl, faceNew2Old), vertNew2Old, NumVert(pImpl)))

\* ------------------------------------------------------------ input meshes
\* Closed, oriented triangle meshes: every half-edge has its twin.  A mesh is
\* laid out from single-component pieces (a lone vertex, a two-triangle
\* pillow, a tetrahedron), their vertices and faces interleaved.
Precisions == {[epsilon |-> 1, tolerance |-> 2], [epsilon |-> 3, tolerance |-> 3]}
Rotations == 0..2
FaceOrders == {"asc", "desc", "riffle"}
PieceSizes == {1, 3, 4}

Rotate(t, r) ==
    IF r = 0 THEN t ELSE IF r = 1 THEN <<t[2], t[3], t[1]>> ELSE <<t[3], t[1], t[2]>>

Flip(t) == <<t[1], t[3], t[2]>>

TriHalfedges(t) == <<Halfedge(t[1], t[2]), Halfedge(t[2], t[3]), Halfedge(t[3], t[1])>>

\* Impl::Shape::Tetrahedron's triVerts, and the pillow on three vertices
ShapeTris(size) ==
    IF size = 4 THEN << <<2, 0, 1>>, <<0, 3, 1>>, <<2, 3, 0>>, <<3, 2, 1>> >>
    ELSE IF size = 3 THEN << <<0, 1, 2>>, <<0, 2, 1>> >>
    ELSE <<>>

PieceTris(size, rot, flip) ==
    [t \in DOMAIN ShapeTris(size) |->
        Rotate(IF flip THEN Flip(ShapeTris(size)[t]) ELSE ShapeTris(size)[t], (rot + t) % 3)]

PiecePos(k, size) == [j \in 1..size |-> 10 * (k + 1) + j]

\* one single-component mesh, as a primitive constructor leaves it
Piece(k, size, rot, flip, prec) ==
    Finish([vertPos |-> PiecePos(k, size),
            halfedge |-> Flatten([t \in DOMAIN PieceTris(size, rot, flip) |->
                                     TriHalfedges(PieceTris(size, rot, flip)[t])]),
            epsilon |-> prec.epsilon, tolerance |-> prec.tolerance, bBox |-> EmptyBox])

NumBlocks(label) == Cardinality(Range(label))
Block(label, k) == SelectSeq(countAt(0, Len(label)), LAMBDA v : At(label, v) = k)
RankIn(label, v) == Cardinality({w \in 0..v : At(label, w) = At(label, v)})

\* vertex-to-piece assignments, pieces numbered in order of their first vertex
RECURSIVE Growth(_)
Growth(n) ==
    IF n = 0 THEN {<<>>}
    ELSE UNION {{Append(s, k) : k \in 0..NumBlocks(s)} : s \in Growth(n - 1)}

Layouts ==
    {label \in UNION {Growth(n) : n \in 0..MaxVert} :
        \A k \in Range(label) : Len(Block(label, k)) \in PieceSizes}

\* layouts in which every piece occupies a contiguous index range
Contiguous(label) == \A v \in 1..(Len(label) - 1) : label[v] <= label[v + 1]

PiecesOf(label, rot, flip, prec) ==
    [k \in 1..NumBlocks(label) |-> Piece(k - 1, Len(Block(label, k - 1)), rot, flip, prec)]

\* face orders: as laid out, back to front, or odd positions before even ones
PermuteFaces(tris, order) ==
    LET n == Len(tris)
        half == (n + 1) \div 2
    IN IF order = "desc" THEN [t \in 1..n |-> tris[n + 1 - t]]
       ELSE IF order = "riffle"
            THEN [t \in 1..n |-> IF t <= half THEN tris[2 * t - 1] ELSE tris[2 * (t - half)]]
       ELSE tris

GlobalTris(label, k, rot, flip) ==
    LET size == Len(Block(label, k))
    IN [t \in DOMAIN PieceTris(size, rot, flip) |->
           [j \in 1..3 |-> At(Block(label, k), PieceTris(size, rot, flip)[t][j])]]

LaidOut(label, rot, flip, prec, order) ==
    LET tris == PermuteFaces(
                    Flatten([k \in 1..NumBlocks(label) |-> GlobalTris(label, k - 1, rot, flip)]),
                    order)
    IN Finish([vertPos |-> [v \in 1..Len(label) |->
                               PiecePos(label[v], Len(Block(label, label[v])))[RankIn(label, v - 1)]],
               halfedge |-> Flatten([t \in DOMAIN tris |-> TriHalfedges(tris[t])]),
               epsilon |-> prec.epsilon, tolerance |-> prec.tolerance, bBox |-> EmptyBox])

InputMeshes ==
    {LaidOut(label, rot, flip, prec, order) :
        label \in Layouts, rot \in Rotations, flip \in BOOLEAN,
        prec \in Precisions, order \in FaceOrders}

InputPieces ==
    {PiecesOf(label, rot, flip, prec) :
        label \in {l \in Layouts : Contiguous(l)}, rot \in Rotations, flip \in BOOLEAN,
        prec \in Precisions}

\* ------------------------------------------------- parallel.h, call by call
Ops == {"for_each", "copy", "scatter", "gather", "sequence", "gather_scatter"}
Values == {7, 8}

\* the f handed to for_each here: it writes one slot of its own
forEachBody(outputFirst, inFirst, k) == [outputFirst EXCEPT ![k + 1] = 2 * At(inFirst, k)]

\* std::copy(first, last, d_first): front to back, whatever the policy
copy(policy, n) == countAt(0, n)

Permutations(n) ==
    {m \in [1..n -> 0..(n - 1)] : \A a, b \in 1..n : m[a] = m[b] => a = b}

MapsFor(o, n) ==
    IF o \in {"scatter", "gather_scatter"} THEN Permutations(n)
    ELSE IF o = "gather" THEN [1..n -> 0..(n - 1)]
    ELSE {<<>>}

FirstCall(o) == IF o = "gather_scatter" THEN "gather" ELSE o

\* the order in which the running call hands indices to its lambda
CallOrder(c, p, n) == IF c = "copy" THEN copy(p, n) ELSE for_each(p, n)

IdleParallel ==
    /\ op = "none" /\ first = <<>> /\ map = <<>> /\ curPolicy = "Seq" /\ call = "finished"
    /\ pos = 0 /\ visits = <<>> /\ tmp = <<>> /\ out = [p \in Policies |-> <<>>]

IdleDecompose ==
    /\ parts = <<>> /\ mesh = DefaultImpl /\ pc = "idle" /\ uf = <<>>
    /\ componentIndices = <<>> /\ numComponents = 0 /\ i = 0 /\ meshes = <<>>
    /\ locals = <<>>

InitDecompose ==
    /\ prog = "Decompose"
    /\ mesh \in InputMeshes
    /\ parts = <<>> /\ pc = "start" /\ uf = <<>>
    /\ componentIndices = <<>> /\ numComponents = 0 /\ i = 0 /\ meshes = <<>>
    /\ locals = <<>>
    /\ IdleParallel

InitCompose ==
    /\ prog = "Compose"
    /\ parts \in InputPieces
    /\ mesh = DefaultImpl /\ pc = "compose" /\ uf = <<>>
    /\ componentIndices = <<>> /\ numComponents = 0 /\ i = 0 /\ meshes = <<>>
    /\ locals = <<>>
    /\ IdleParallel

InitParallel ==
    /\ prog = "parallel"
    /\ op \in Ops
    /\ \E n \in 0..MaxLen :
        /\ first \in [1..n -> Values]
        /\ map \in MapsFor(op, n)
        /\ visits = [k \in 1..n |-> 0]
        /\ tmp = [k \in 1..n |-> 0]
        /\ out = [p \in Policies |-> [k \in 1..n |-> 0]]
    /\ curPolicy = "Seq" /\ call = FirstCall(op) /\ pos = 0
    /\ IdleDecompose

Init == InitDecompose \/ InitCompose \/ InitParallel

\* ------------------------------------------------------------------ actions
\* Manifold::Compose(manifolds), then Decompose is called on the result
ComposeCall ==
    /\ pc = "compose"
    /\ mesh' = Compose(parts)
    /\ pc' = "start"
    /\ UNCHANGED <<prog, parts, uf, componentIndices, numComponents, i, meshes, locals>>
    /\ UNCHANGED parallelVars

\* UnionFind<> uf(NumVert()); the loop over pImpl_->halfedge_
UnionPass ==
    /\ pc = "start"
    /\ uf' = UnionLoop(UnionFind(NumVert(mesh)), mesh.halfedge)
    /\ pc' = "unioned"
    /\ UNCHANGED <<prog, parts, mesh, componentIndices, numComponents, i, meshes, locals>>
    /\ UNCHANGED parallelVars

\* const int numComponents = uf.connectedComponents(componentIndices);
Label ==
    /\ pc = "unioned"
    /\ componentIndices' = connectedComponents(uf).components
    /\ numComponents' = connectedComponents(uf).count
    /\ pc' = "labelled"
    /\ UNCHANGED <<prog, parts, mesh, uf, i, meshes, locals>>
    /\ UNCHANGED parallelVars

\* if (numComponents == 1) { ... return meshes; }
ReturnSingle ==
    /\ pc = "labelled"
    /\ numComponents = 1
    /\ meshes' = SingleResult(mesh)
    /\ pc' = "done"
    /\ UNCHANGED <<prog, parts, mesh, uf, componentIndices, numComponents, i, locals>>
    /\ UNCHANGED parallelVars

\* Vec<int> vertLabel(componentIndices); std::vector<Manifold> meshes; i = 0
EnterLoop ==
    /\ pc = "labelled"
    /\ numComponents # 1
    /\ i' = 0
    /\ meshes' = <<>>
    /\ pc' = "loop"
    /\ UNCHANGED <<prog, parts, mesh, uf, componentIndices, numComponents, locals>>
    /\ UNCHANGED parallelVars

\* one iteration of for (int i = 0; i < numComponents; ++i)
LoopBody ==
    /\ pc = "loop"
    /\ i < numComponents
    /\ LET vertNew2Old == VertNew2Old(i, componentIndices, NumVert(mesh))
           faceNew2Old == FaceNew2Old(i, componentIndices, mesh.halfedge, NumTri(mesh))
           impl == GatherVertPos(InheritPrecision(DefaultImpl, mesh), mesh, vertNew2Old)
           skip == SkipComponent(Len(faceNew2Old))
       IN /\ locals' = Append(locals, [label |-> i,
                                        vertNew2Old |-> vertNew2Old,
                                        faceNew2Old |-> faceNew2Old,
                                        vertPos |-> impl.vertPos,
                                        pushed |-> ~skip])
          /\ meshes' = IF skip THEN meshes
                       ELSE Append(meshes, Rebuild(impl, mesh, vertNew2Old, faceNew2Old))
    /\ i' = i + 1
    /\ UNCHANGED <<prog, parts, mesh, pc, uf, componentIndices, numComponents>>
    /\ UNCHANGED parallelVars

\* return meshes;
ReturnMeshes ==
    /\ pc = "loop"
    /\ i >= numComponents
    /\ pc' = "done"
    /\ UNCHANGED <<prog, parts, mesh, uf, componentIndices, numComponents, i, meshes, locals>>
    /\ UNCHANGED parallelVars

ApplyTo(target) ==
    LET k == At(CallOrder(call, curPolicy, Len(first)), pos)
    IN IF call = "for_each" THEN forEachBody(target, first, k)
       ELSE IF call = "copy" THEN copyBody(target, first, k)
       ELSE IF call = "sequence" THEN sequenceBody(target, k)
       ELSE IF call = "gather" THEN gatherBody(target, map, first, k)
       ELSE IF op = "gather_scatter" THEN scatterBody(target, map, tmp, k)
       ELSE scatterBody(target, map, first, k)

\* one application of the running call's lambda
Apply ==
    /\ prog = "parallel"
    /\ call \in Ops
    /\ pos < Len(CallOrder(call, curPolicy, Len(first)))
    /\ IF op = "gather_scatter" /\ call = "gather"
       THEN tmp' = ApplyTo(tmp) /\ out' = out
       ELSE out' = [out EXCEPT ![curPolicy] = ApplyTo(out[curPolicy])] /\ tmp' = tmp
    /\ visits' = [visits EXCEPT ![At(CallOrder(call, curPolicy, Len(first)), pos) + 1] = @ + 1]
    /\ pos' = pos + 1
    /\ UNCHANGED <<prog, op, first, map, curPolicy, call>>
    /\ UNCHANGED decomposeVars

\* the running call returns
Return ==
    /\ prog = "parallel"
    /\ call \in Ops
    /\ pos >= Len(CallOrder(call, curPolicy, Len(first)))
    /\ call' = IF op = "gather_scatter" /\ call = "gather" THEN "gathered" ELSE "returned"
    /\ UNCHANGED <<prog, op, first, map, curPolicy, pos, visits, tmp, out>>
    /\ UNCHANGED decomposeVars

\* the caller goes on: the scatter after the gather, then the same under Par
NextCall ==
    /\ prog = "parallel"
    /\ \/ /\ call = "gathered"
          /\ call' = "scatter"
          /\ curPolicy' = curPolicy
          /\ tmp' = tmp
       \/ /\ call = "returned"
          /\ curPolicy = "Seq"
          /\ call' = FirstCall(op)
          /\ curPolicy' = "Par"
          /\ tmp' = [k \in DOMAIN tmp |-> 0]
       \/ /\ call = "returned"
          /\ curPolicy = "Par"
          /\ call' = "finished"
          /\ curPolicy' = curPolicy
          /\ tmp' = tmp
    /\ pos' = 0
    /\ visits' = [k \in DOMAIN visits |-> 0]
    /\ UNCHANGED <<prog, op, first, map, out>>
    /\ UNCHANGED decomposeVars

Next ==
    \/ ComposeCall
    \/ UnionPass
    \/ Label
    \/ ReturnSingle
    \/ EnterLoop
    \/ LoopBody
    \/ ReturnMeshes
    \/ Apply
    \/ Return
    \/ NextCall

Spec == Init /\ [][Next]_vars

\* ------------------------------------------------------- derived vocabulary
Done == pc = "done"

Indices(impl) == 0..(NumVert(impl) - 1)

\* every half-edge of the mesh refers to vertices of the mesh
WellIndexed(impl) ==
    \A h \in DOMAIN impl.halfedge :
        impl.halfedge[h].startVert \in Indices(impl) /\ impl.halfedge[h].endVert \in Indices(impl)

\* every half-edge occurs once and its twin occurs once; triangles are closed
IsManifold(impl) ==
    /\ Len(impl.halfedge) % 3 = 0
    /\ WellIndexed(impl)
    /\ \A a, b \in DOMAIN impl.halfedge :
           impl.halfedge[a] = impl.halfedge[b] => a = b
    /\ \A a \in DOMAIN impl.halfedge :
           /\ impl.halfedge[a].startVert # impl.halfedge[a].endVert
           /\ \E b \in DOMAIN impl.halfedge :
                  impl.halfedge[b] = Halfedge(impl.halfedge[a].endVert, impl.halfedge[a].startVert)
    /\ \A f \in 0..(NumTri(impl) - 1) : \A e \in 0..2 :
           At(impl.halfedge, 3 * f + e).endVert = At(impl.halfedge, 3 * f + ((e + 1) % 3)).startVert

FaceVerts(impl, f) == {At(impl.halfedge, 3 * f + e).startVert : e \in 0..2}

\* source vertices incident on at least one triangle
TriangleVerts(impl) == UNION {FaceVerts(impl, f) : f \in 0..(NumTri(impl) - 1)}

LoneVertex(impl) == NumVert(impl) = 1 /\ NumTri(impl) = 0

Increasing(s) == \A a, b \in DOMAIN s : a < b => s[a] < s[b]

PushedLocals == SelectSeq(locals, LAMBDA l : l.pushed)

\* the source vertices each returned mesh carries
Carried ==
    IF numComponents = 1 THEN [k \in DOMAIN meshes |-> Indices(meshes[k])]
    ELSE [k \in DOMAIN PushedLocals |-> Range(PushedLocals[k].vertNew2Old)]

\* the component label each returned mesh was built for
OutLabels ==
    IF numComponents = 1 THEN [k \in DOMAIN meshes |-> 0]
    ELSE [k \in DOMAIN PushedLocals |-> PushedLocals[k].label]

\* labels of the components that own a triangle
BearingLabels == {At(componentIndices, v) : v \in TriangleVerts(mesh)}

\* labels are handed out in the order in which components are first met
FirstEncountered(labels) ==
    \A v \in DOMAIN labels :
        labels[v] \in 0..Cardinality({labels[w] : w \in 1..(v - 1)})

\* the triangles of a mesh as triples of positions, each up to rotation
TrianglesByPos(impl) ==
    {{Rotate([e \in 1..3 |-> At(impl.vertPos, At(impl.halfedge, 3 * f + e - 1).startVert)], r) :
         r \in Rotations} : f \in 0..(NumTri(impl) - 1)}

\* same vertex positions and same triangles, up to array ordering
Equivalent(a, b) ==
    /\ WellIndexed(a) /\ WellIndexed(b)
    /\ NumVert(a) = NumVert(b) /\ NumTri(a) = NumTri(b)
    /\ \A x \in Range(a.vertPos) \cup Range(b.vertPos) :
           Cardinality({k \in DOMAIN a.vertPos : a.vertPos[k] = x})
               = Cardinality({k \in DOMAIN b.vertPos : b.vertPos[k] = x})
    /\ TrianglesByPos(a) = TrianglesByPos(b)

\* ------------------------------------------------------------------- sanity
TypeOK ==
    /\ prog \in {"Decompose", "Compose", "parallel"}
    /\ pc \in {"idle", "compose", "start", "unioned", "labelled", "loop", "done"}
    /\ pc \notin {"idle", "compose"} => IsManifold(mesh)
    /\ Len(meshes) <= Len(mesh.vertPos) + 1
    /\ curPolicy \in Policies
    /\ call \in Ops \cup {"gathered", "returned", "finished"}

\* a contiguous layout in its own face order is what Compose builds
ComposeIsLayout ==
    (prog = "Compose" /\ pc # "compose") => mesh \in InputMeshes \cup {Compose(<<>>)}

\* ------------------------------------------------------------------- claims
PartitionHolds ==
    /\ Len(Carried) = Len(meshes)
    /\ \A k \in DOMAIN meshes : NumVert(meshes[k]) = Cardinality(Carried[k])
    /\ \A a, b \in DOMAIN Carried : a # b => Carried[a] \cap Carried[b] = {}
    /\ UNION Range(Carried) = TriangleVerts(mesh)

\* C1 as stated: for every input mesh the vertex sets of the returned meshes
\* are pairwise disjoint and their union is the set of triangle-incident
\* source vertices.
C1_PartitionEveryMesh == Done => PartitionHolds

\* C1, amended: the same for every input mesh other than a single vertex
\* without triangles (which is one component and is returned as it is).
C1_Partition == (Done /\ ~LoneVertex(mesh)) => PartitionHolds

C1_Witness ==
    /\ Done /\ Len(meshes) = 2
    /\ TriangleVerts(mesh) # Indices(mesh)
    /\ \E v \in Carried[2] : \E w \in Carried[1] : v < w

\* C2: Decompose of an empty mesh returns exactly one mesh, equal to the input.
C2_EmptyYieldsItself ==
    (Done /\ NumVert(mesh) = 0 /\ NumTri(mesh) = 0) => meshes = <<mesh>>

OnePerBearingComponent ==
    /\ FirstEncountered(componentIndices)
    /\ Len(OutLabels) = Len(meshes)
    /\ Increasing(OutLabels)
    /\ Range(OutLabels) = BearingLabels
    /\ \A k \in DOMAIN meshes :
           /\ NumTri(meshes[k]) >= 1
           /\ NumTri(meshes[k]) =
                  Cardinality({f \in 0..(NumTri(mesh) - 1) :
                      \E v \in FaceVerts(mesh, f) : At(componentIndices, v) = OutLabels[k]})

\* C3 as stated: one mesh per connected component that has a triangle, in
\* ascending label order, labels in first-encountered order; a component
\* without triangles contributes nothing; every returned mesh has a triangle.
C3_OnePerComponentEveryMesh == Done => OnePerBearingComponent

\* C3, amended: the same for every input mesh other than a single vertex
\* without triangles.
C3_OnePerComponent == (Done /\ ~LoneVertex(mesh)) => OnePerBearingComponent

C3_Witness ==
    /\ Done /\ numComponents = 2 /\ Len(meshes) = 1
    /\ \E v \in Indices(mesh) : v \notin TriangleVerts(mesh)

\* C4: when the union-find pass finds exactly one component, the result has
\* length one and its element equals the input; nothing was compacted.
C4_SingleComponentCopy ==
    (Done /\ numComponents = 1) => (Len(meshes) = 1 /\ meshes[1] = mesh /\ locals = <<>>)

C4_Witness == Done /\ numComponents = 1 /\ NumTri(mesh) = 4 /\ meshes = <<mesh>>

RoundTrip ==
    /\ Len(meshes) = Len(parts)
    /\ \A k \in DOMAIN parts : Equivalent(meshes[k], parts[k])

C6_PrecisionInherited ==
    \A k \in DOMAIN meshes :
        meshes[k].epsilon = mesh.epsilon /\ meshes[k].tolerance = mesh.tolerance

C6_Witness == Done /\ Len(meshes) = 2 /\ mesh.epsilon = 3 /\ meshes[2].epsilon = 3

\* C7: for_each, copy, scatter (injective map), gather and sequence hand every
\* index to the lambda exactly once before the call returns, and leave the
\* same output array under Seq and under Par.
C7_PolicyTransparent ==
    /\ (prog = "parallel" /\ call \in {"gathered", "returned"}) =>
           \A k \in DOMAIN visits : visits[k] = 1
    /\ (prog = "parallel" /\ call = "finished") => out["Seq"] = out["Par"]

C7_Witness ==
    /\ prog = "parallel" /\ call = "finished" /\ op = "scatter"
    /\ Len(first) = 3 /\ map = <<2, 0, 1>> /\ first = <<7, 8, 8>>
    /\ out["Par"] = <<8, 8, 7>>

\* C8: gather(map, src, tmp) followed by scatter(tmp, map, dst), with map a
\* permutation of [0, n), leaves dst equal to src.
C8_GatherScatterRoundTrip ==
    (prog = "parallel" /\ op = "gather_scatter" /\ call = "returned") =>
        /\ out[curPolicy] = first
        /\ tmp = [k \in DOMAIN map |-> At(first, map[k])]

C8_Witness ==
    /\ prog = "parallel" /\ op = "gather_scatter" /\ call = "returned"
    /\ map = <<1, 2, 0>> /\ first = <<7, 8, 8>> /\ tmp = <<8, 8, 7>>

\* C9: once the forward half-edges of a manifold mesh are unioned, the three
\* vertices of every triangle share a label, so every vertex of a triangle
\* gathered into an output mesh is kept for it and reindexes into [0, nVert).
C9_TriangleSharesLabel ==
    (pc \in {"labelled", "loop", "done"} /\ IsManifold(mesh)) =>
        /\ \A f \in 0..(NumTri(mesh) - 1) :
               Cardinality({At(componentIndices, v) : v \in FaceVerts(mesh, f)}) = 1
        /\ numComponents # 1 =>
               \A k \in DOMAIN meshes :
                   /\ \A f \in Range(PushedLocals[k].faceNew2Old) :
                          FaceVerts(mesh, f) \subseteq Range(PushedLocals[k].vertNew2Old)
                   /\ WellIndexed(meshes[k])
                   /\ \A h \in DOMAIN meshes[k].halfedge :
                          LET old == At(mesh.halfedge,
                                        3 * At(PushedLocals[k].faceNew2Old, (h - 1) \div 3)
                                            + ((h - 1) % 3))
                          IN /\ At(PushedLocals[k].vertNew2Old, meshes[k].halfedge[h].startVert)
                                    = old.startVert
                             /\ At(PushedLocals[k].vertNew2Old, meshes[k].halfedge[h].endVert)
                                    = old.endVert

C9_Witness ==
    /\ Done /\ Len(meshes) = 2
    /\ \E f \in 0..(NumTri(mesh) - 1) :
           Cardinality({e \in 0..2 : IsForward(At(mesh.halfedge, 3 * f + e))}) = 1

\* C10: for every label i the kept-vertex map and the kept-face map are
\* strictly increasing and hold exactly the indices labelled i; output vertex
\* k has the position of source vertex vertNew2Old[k].
C10_CompactionKeepsOrder ==
    /\ \A l \in DOMAIN locals :
           /\ locals[l].label = l - 1
           /\ Increasing(locals[l].vertNew2Old)
           /\ Range(locals[l].vertNew2Old) =
                  {v \in Indices(mesh) : At(componentIndices, v) = locals[l].label}
           /\ Increasing(locals[l].faceNew2Old)
           /\ Range(locals[l].faceNew2Old) =
                  {f \in 0..(NumTri(mesh) - 1) :
                      At(componentIndices, At(mesh.halfedge, 3 * f).startVert) = locals[l].label}
           /\ locals[l].vertPos =
                  [k \in DOMAIN locals[l].vertNew2Old |-> At(mesh.vertPos, locals[l].vertNew2Old[k])]
    /\ numComponents # 1 =>
           \A k \in DOMAIN meshes : meshes[k].vertPos = PushedLocals[k].vertPos

C10_Witness ==
    /\ Done /\ Len(meshes) = 2
    /\ \E l \in DOMAIN locals :
           /\ locals[l].pushed
           /\ \E a \in 1..(Len(locals[l].vertNew2Old) - 1) :
                  locals[l].vertNew2Old[a + 1] > locals[l].vertNew2Old[a] + 1
           /\ \E a \in 1..(Len(locals[l].faceNew2Old) - 1) :
                  locals[l].faceNew2Old[a + 1] > locals[l].faceNew2Old[a] + 1

====
